---- MODULE Spec2Model ----
(***************************************************************************)
(* Model of generate_icon.py: the icon pipeline (three themes, each drawn  *)
(* into an RGBA buffer and exported as four PNG files), the supersampled   *)
(* rounded-rectangle helper and the variant exporter.                      *)
(*                                                                         *)
(* An image is a display list: its size and the sequence of drawing        *)
(* operations applied to it, in order.  ImageDraw on an RGBA buffer        *)
(* replaces pixels, so the colour of a pixel is the fill of the last       *)
(* operation that covers it.                                               *)
(***************************************************************************)
EXTENDS Integers, Sequences, FiniteSets, TLC

VARIABLES
    pc,         \* position of the interpreter in the script
    ret,        \* where _save_variants returns to (its caller's continuation)
    pil,        \* TRUE iff the PIL package can be imported
    installs,   \* number of "pip install Pillow" runs of this process
    cause,      \* the exception that ended the process, "" while none
    base_name,  \* argument of the running _save_variants call
    splash_bg,  \* argument of the running _save_variants call
    img,        \* the image under construction / being exported
    grad,       \* rows of the gradient buffer filled so far (row y is grad[y+1])
    font,       \* font handle of create_purple_modern, "" before the load
    fs,         \* the disk: path -> file content
    log,        \* the successful writes, in order (the "  v path" lines)
    snap,       \* exporter driver: the disk when the first call returned
    rect        \* rounded-rectangle driver: the arguments of the call

vars == <<pc, ret, pil, installs, cause, base_name, splash_bg, img, grad,
          font, fs, log, snap, rect>>

\* ---------------------------------------------------------------- bounds
MaxLabelWidth == 2
MaxRectSize == 12
MaxRectRadius == 8

\* ------------------------------------------------------------- constants
SIZE == 1024
SS == 4
FAVICON == 48
FONT_SIZE == 96

BLANK == <<0, 0, 0, 0>>
WHITE == <<255, 255, 255>>
RED_BG == <<220, 38, 38>>
PURPLE_DARK == <<126, 34, 206>>
PURPLE_LIGHT == <<168, 85, 247>>
CYAN_ACCENT == <<6, 182, 212>>
DARK_BG == <<15, 23, 42>>
ACCENT == <<168, 85, 247>>

\* --------------------------------------------------------------- images
\* A fill given as an RGB triple is drawn opaque.
Ink(c) == IF Len(c) = 3 THEN c \o <<255>> ELSE c

Op(o, xy, fill, arg) ==
    [op |-> o, xy |-> xy, fill |-> Ink(fill), arg |-> arg,
     aux |-> "", rows |-> <<>>, sub |-> <<>>]

NewImage(w, h, color) ==
    [size |-> <<w, h>>, ops |-> <<Op("new", <<0, 0, w, h>>, color, 0)>>]

Draw(im, o) == [im EXCEPT !.ops = Append(@, o)]

\* im.resize((w, h), Image.LANCZOS): a new image; im itself is left alone.
Resize(im, w, h) ==
    [size |-> <<w, h>>,
     ops |-> <<[op |-> "resize", xy |-> <<0, 0, w, h>>, fill |-> BLANK,
                arg |-> im.size[1], aux |-> "LANCZOS", rows |-> <<>>,
                sub |-> im.ops]>>]

\* canvas.paste(im, offset, im): im composited through its own alpha.
Paste(canvas, im, offset) ==
    Draw(canvas,
         [op |-> "paste",
          xy |-> <<offset[1], offset[2],
                   offset[1] + im.size[1], offset[2] + im.size[2]>>,
          fill |-> BLANK, arg |-> 0, aux |-> "alpha", rows |-> <<>>,
          sub |-> im.ops])

\* The rasterised big canvas of _aa_rounded_rect.
AaBig(size, radius, fill) ==
    Draw(NewImage(size * SS, size * SS, BLANK),
         Op("rounded_rectangle", <<0, 0, size * SS, size * SS>>, fill,
            radius * SS))

AaRoundedRect(size, radius, fill) == Resize(AaBig(size, radius, fill), size, size)

\* ------------------------------------------------------- variant exporter
DIR == "assets/images/"

path_icon(b) == DIR \o b \o ".png"

\* Mutant: the adaptive copy saved under the icon's own name.
path_adaptive_Same(b) == DIR \o b \o ".png"

path_adaptive(b) ==
    IF b = "icon" THEN DIR \o "adaptive-icon.png"
    ELSE DIR \o "adaptive-" \o b \o ".png"

\* Mutant: the favicon name without the override for the primary icon.
path_fav_NoOverride(b) == DIR \o "favicon-" \o b \o ".png"

path_fav(b) ==
    IF b = "icon" THEN DIR \o "favicon.png"
    ELSE DIR \o "favicon-" \o b \o ".png"

\* Mutant: the override for the primary icon applied to every base name.
path_splash_Fixed(b) == DIR \o "splash.png"

path_splash(b) ==
    IF b = "icon" THEN DIR \o "splash.png"
    ELSE DIR \o "splash-" \o b \o ".png"

\* Mutant: the image shrunk in place (thumbnail) instead of resized into a copy.
FaviconStep_InPlace(im) ==
    [fav |-> Resize(im, FAVICON, FAVICON), img |-> Resize(im, FAVICON, FAVICON)]

\* img.resize((48, 48), LANCZOS): fav is a new image and img keeps its pixels.
FaviconStep(im) == [fav |-> Resize(im, FAVICON, FAVICON), img |-> im]

SplashCanvas(bg) == NewImage(SIZE * 2, SIZE * 2, bg \o <<255>>)

\* Mutant: the offset taken from the canvas alone, the icon's edge forgotten.
SplashOffset_NoIcon == <<(SIZE * 2) \div 2, (SIZE * 2) \div 2>>

SplashOffset == <<(SIZE * 2 - SIZE) \div 2, (SIZE * 2 - SIZE) \div 2>>

Splash(im, bg) == Paste(SplashCanvas(bg), im, SplashOffset)

\* What Image.save puts in the file.
PNG(im) == [format |-> "PNG", mode |-> "RGBA", size |-> im.size, data |-> im.ops]

Truncated == [format |-> "PNG", mode |-> "RGBA", size |-> <<0, 0>>, data |-> <<>>]

Stale ==
    [format |-> "PNG", mode |-> "RGBA", size |-> <<SIZE, SIZE>>,
     data |-> <<Op("stale", <<0, 0, SIZE, SIZE>>, BLANK, 0)>>]

BaseNames == {"icon", "icon-modern", "icon-dark"}

EmptyFS == [p \in {} |-> Stale]

\* The disk a previous run of the script left behind.
StaleFS ==
    [p \in UNION {{path_icon(b), path_adaptive(b), path_fav(b), path_splash(b)} :
                     b \in BaseNames} |-> Stale]

WriteFile(disk, path, content) ==
    [p \in DOMAIN disk \cup {path} |-> IF p = path THEN content ELSE disk[p]]

\* A save that raises: either the open failed (or the new file was removed
\* again) and the disk is as before ("untouched"), or the file had been opened
\* for writing and is left cut short ("partial").
WriteOutcomes == {"ok", "untouched", "partial"}

FailedWrite(disk, path, how) ==
    IF how = "partial" THEN WriteFile(disk, path, Truncated) ELSE disk

\* An exception no handler catches ends the process.
Raise(e) == pc' = "crashed" /\ cause' = e

\* One img.save(path) of _save_variants followed by its print.
Save(at, path, content, next) ==
    /\ pc = at
    /\ \E how \in WriteOutcomes :
          IF how = "ok"
          THEN /\ fs' = WriteFile(fs, path, content)
               /\ log' = Append(log, [base |-> base_name, path |-> path,
                                      content |-> content])
               /\ pc' = next
               /\ UNCHANGED cause
          ELSE /\ fs' = FailedWrite(fs, path, how)
               /\ Raise("OSError")
               /\ UNCHANGED log
    /\ UNCHANGED <<ret, pil, installs, base_name, splash_bg, grad, font, snap, rect>>

SaveIcon == Save("save_icon", path_icon(base_name), PNG(img), "save_adaptive") /\ img' = img

SaveAdaptive ==
    Save("save_adaptive", path_adaptive(base_name), PNG(img), "save_favicon") /\ img' = img

SaveFavicon ==
    /\ Save("save_favicon", path_fav(base_name), PNG(FaviconStep(img).fav), "save_splash")
    /\ img' = FaviconStep(img).img

SaveSplash ==
    Save("save_splash", path_splash(base_name), PNG(Splash(img, splash_bg)), ret) /\ img' = img

\* The call _save_variants(im, b, splash_bg=bg) with continuation k.
Call_save_variants(im, b, bg, k) ==
    /\ img' = im
    /\ base_name' = b
    /\ splash_bg' = bg
    /\ ret' = k
    /\ pc' = "save_icon"

\* ------------------------------------------------------------ the themes
\* create_red_minimalist: the finished image.
RedImage ==
    LET RADIUS == 220
        h_width == 440
        h_height == 500
        stem_width == 110
        cx == SIZE \div 2
        cy == SIZE \div 2
        x1 == cx - h_width \div 2
        y1 == cy - h_height \div 2
        x2 == cx + h_width \div 2 - stem_width
        y2 == cy - h_height \div 2
        bar_height == 90
        bx1 == x1 + stem_width
        by1 == cy - bar_height \div 2
        bx2 == x2
        by2 == cy + bar_height \div 2
        i0 == AaRoundedRect(SIZE, RADIUS, RED_BG \o <<255>>)
        i1 == Draw(i0, Op("rectangle", <<x1, y1, x1 + stem_width, y1 + h_height>>, WHITE, 0))
        i2 == Draw(i1, Op("rectangle", <<x2, y2, x2 + stem_width, y2 + h_height>>, WHITE, 0))
    IN  Draw(i2, Op("rectangle", <<bx1, by1, bx2, by2>>, WHITE, 0))

\* int(x) of a non-negative or negative rational n/d (d > 0): toward zero.
PyInt(n, d) == IF n >= 0 THEN n \div d ELSE -((-n) \div d)

\* Python's round() of the non-negative rational n/d: to nearest, ties to even.
PyRound(n, d) ==
    LET q == n \div d
        r == n % d
    IN  IF 2 * r < d THEN q
        ELSE IF 2 * r > d THEN q + 1
        ELSE IF q % 2 = 0 THEN q ELSE q + 1

\* Mutant: the channel rounded to nearest instead of cut by int().
GradChannel_Rounded(c0, c1, y) == PyRound(c0 * SIZE + (c1 - c0) * y, SIZE)

\* One channel of gradient row y: int(c0 + (c1 - c0) * t) with t = y / SIZE.
\* y / SIZE, the product and the sum are exact in binary floating point
\* (SIZE is a power of two), so the value is the rational below.
GradChannel(c0, c1, y) == PyInt(c0 * SIZE + (c1 - c0) * y, SIZE)

GradRow(y) ==
    <<GradChannel(PURPLE_DARK[1], PURPLE_LIGHT[1], y),
      GradChannel(PURPLE_DARK[2], PURPLE_LIGHT[2], y),
      GradChannel(PURPLE_DARK[3], PURPLE_LIGHT[3], y),
      255>>

\* create_purple_modern after the gradient loop: mask, paste, glyph, checkmark.
ModernGlyph(im, rows) ==
    LET RADIUS == 200
        h_w == 420
        h_h == 480
        h_x == (SIZE - h_w) \div 2
        h_y == (SIZE - h_h) \div 2 - 40
        bar_w == 72
        bar_r == 18
        cross_y == h_y + (h_h - bar_w) \div 2
        check_cx == h_x + h_w - 30
        check_cy == h_y + h_h - 60
        check_w == 52
        i0 == Draw(im, [op |-> "paste", xy |-> <<0, 0, SIZE, SIZE>>, fill |-> BLANK,
                        arg |-> RADIUS, aux |-> "mask", rows |-> rows, sub |-> <<>>])
        i1 == Draw(i0, Op("rounded_rectangle",
                          <<h_x, h_y, h_x + bar_w, h_y + h_h>>, WHITE, bar_r))
        i2 == Draw(i1, Op("rounded_rectangle",
                          <<h_x + h_w - bar_w, h_y, h_x + h_w, h_y + h_h>>, WHITE, bar_r))
        i3 == Draw(i2, Op("rounded_rectangle",
                          <<h_x, cross_y, h_x + h_w, cross_y + bar_w>>, WHITE, bar_r))
    IN  Draw(i3, Op("line",
                    <<check_cx - 60, check_cy, check_cx - 20, check_cy + 40,
                      check_cx + 80, check_cy - 55>>, CYAN_ACCENT, check_w))

\* Mutant: no handler around the load, so a failed load ends the process.
FontLoad_Raises(ok) ==
    IF ok THEN [pc |-> "modern_text", font |-> "arialbd.ttf", cause |-> ""]
    ELSE [pc |-> "crashed", font |-> "", cause |-> "OSError"]

\* The try/except around ImageFont.truetype: where the run goes on and with
\* which font, by whether the load succeeded.
FontLoad(ok) ==
    IF ok THEN [pc |-> "modern_text", font |-> "arialbd.ttf", cause |-> ""]
    ELSE [pc |-> "modern_text", font |-> "default", cause |-> ""]

\* The label drawn with font f, lw being the width textbbox reports.
ModernLabel(im, f, lw) ==
    LET h_h == 480
        h_y == (SIZE - h_h) \div 2 - 40
        lx == (SIZE - lw) \div 2
        ly == h_y + h_h + 36
    IN  Draw(im, [op |-> "text", xy |-> <<lx, ly>>, fill |-> WHITE \o <<230>>,
                  arg |-> FONT_SIZE, aux |-> f, rows |-> <<>>, sub |-> <<>>])

\* create_dark_symbolic up to the checkmark.
DarkRing ==
    LET RADIUS == 220
        cx == SIZE \div 2
        cy == SIZE \div 2
        ring_r == 300
        ring_w == 40
        inner_r == ring_r - ring_w
        i0 == AaRoundedRect(SIZE, RADIUS, DARK_BG \o <<255>>)
        i1 == Draw(i0, Op("ellipse", <<cx - ring_r, cy - ring_r, cx + ring_r, cy + ring_r>>,
                          WHITE \o <<50>>, 0))
        i2 == Draw(i1, Op("ellipse", <<cx - inner_r, cy - inner_r, cx + inner_r, cy + inner_r>>,
                          DARK_BG \o <<255>>, 0))
    IN  Draw(i2, Op("line", <<cx - 140, cy + 10, cx - 30, cy + 130, cx + 160, cy - 110>>,
                    WHITE, 56))

dot_r == 32

dot_cy == SIZE \div 2 - 300 + 40 \div 2

\* The first dot draw: box [(cx, dot_cy - dot_r), (cx + dot_r * 2, dot_cy + dot_r)].
DarkDotOffset(im) ==
    LET cx == SIZE \div 2
    IN  Draw(im, Op("ellipse", <<cx, dot_cy - dot_r, cx + dot_r * 2, dot_cy + dot_r>>,
                    ACCENT, 0))

\* The second dot draw: box [(cx - dot_r, dot_cy - dot_r), (cx + dot_r, dot_cy + dot_r)].
DarkDotCorrect(im) ==
    LET cx == SIZE \div 2
    IN  Draw(im, Op("ellipse", <<cx - dot_r, dot_cy - dot_r, cx + dot_r, dot_cy + dot_r>>,
                    ACCENT, 0))

DarkImage == DarkDotCorrect(DarkDotOffset(DarkRing))

\* ---------------------------------------------------------- the pipeline
NoImage == [size |-> <<0, 0>>, ops |-> <<>>]

NoRect == [size |-> 0, radius |-> 0, fill |-> BLANK]

Init ==
    /\ pc = "import"
    /\ ret = ""
    /\ pil \in BOOLEAN
    /\ installs = 0
    /\ cause = ""
    /\ base_name = ""
    /\ splash_bg = <<0, 0, 0>>
    /\ img = NoImage
    /\ grad = <<>>
    /\ font = ""
    /\ fs \in {EmptyFS, StaleFS}
    /\ log = <<>>
    /\ snap = EmptyFS
    /\ rect = NoRect

\* Line 1: from PIL import Image, ImageDraw, ImageFont, ImageFilter.
ModuleImport ==
    /\ pc = "import"
    /\ IF pil THEN pc' = "main" /\ UNCHANGED cause ELSE Raise("ImportError")
    /\ UNCHANGED <<ret, pil, installs, base_name, splash_bg, img, grad, font, fs,
                   log, snap, rect>>

\* The try/except ImportError at the head of the __main__ block.
MainGuard ==
    /\ pc = "main"
    /\ IF pil
       THEN pc' = "red" /\ UNCHANGED <<pil, installs, cause>>
       ELSE /\ installs' = installs + 1
            /\ \E ok \in BOOLEAN :
                  IF ok THEN pc' = "red" /\ pil' = TRUE /\ UNCHANGED cause
                  ELSE Raise("CalledProcessError") /\ UNCHANGED pil
    /\ UNCHANGED <<ret, base_name, splash_bg, img, grad, font, fs, log, snap, rect>>

create_red_minimalist ==
    /\ pc = "red"
    /\ Call_save_variants(RedImage, "icon", RED_BG, "modern")
    /\ UNCHANGED <<pil, installs, cause, grad, font, fs, log, snap, rect>>

\* create_purple_modern: the two Image.new calls before the gradient loop.
ModernBegin ==
    /\ pc = "modern"
    /\ img' = NewImage(SIZE, SIZE, BLANK)
    /\ grad' = <<>>
    /\ pc' = "modern_grad"
    /\ UNCHANGED <<ret, pil, installs, cause, base_name, splash_bg, font, fs, log,
                   snap, rect>>

\* One pass of "for y in range(SIZE)": the whole row y gets one colour.
ModernGradRow ==
    /\ pc = "modern_grad"
    /\ Len(grad) < SIZE
    /\ grad' = Append(grad, GradRow(Len(grad)))
    /\ UNCHANGED <<pc, ret, pil, installs, cause, base_name, splash_bg, img, font,
                   fs, log, snap, rect>>

ModernDraw ==
    /\ pc = "modern_grad"
    /\ Len(grad) = SIZE
    /\ img' = ModernGlyph(img, grad)
    /\ pc' = "modern_font"
    /\ UNCHANGED <<ret, pil, installs, cause, base_name, splash_bg, grad, font, fs,
                   log, snap, rect>>

ModernFont ==
    /\ pc = "modern_font"
    /\ \E ok \in BOOLEAN :
          /\ pc' = FontLoad(ok).pc
          /\ font' = FontLoad(ok).font
          /\ cause' = FontLoad(ok).cause
    /\ UNCHANGED <<ret, pil, installs, base_name, splash_bg, img, grad, fs, log,
                   snap, rect>>

ModernText ==
    /\ pc = "modern_text"
    /\ \E lw \in 0..MaxLabelWidth :
          Call_save_variants(ModernLabel(img, font, lw), "icon-modern", PURPLE_DARK, "dark")
    /\ UNCHANGED <<pil, installs, cause, grad, font, fs, log, snap, rect>>

DarkBegin ==
    /\ pc = "dark"
    /\ img' = DarkRing
    /\ pc' = "dark_dot"
    /\ UNCHANGED <<ret, pil, installs, cause, base_name, splash_bg, grad, font, fs,
                   log, snap, rect>>

DarkDot ==
    /\ pc = "dark_dot"
    /\ img' = DarkDotOffset(img)
    /\ pc' = "dark_dot2"
    /\ UNCHANGED <<ret, pil, installs, cause, base_name, splash_bg, grad, font, fs,
                   log, snap, rect>>

DarkFinish ==
    /\ pc = "dark_dot2"
    /\ Call_save_variants(DarkDotCorrect(img), "icon-dark", DARK_BG, "finish")
    /\ UNCHANGED <<pil, installs, cause, grad, font, fs, log, snap, rect>>

\* print("Done! All variants generated.")
Done ==
    /\ pc = "finish"
    /\ pc' = "done"
    /\ UNCHANGED <<ret, pil, installs, cause, base_name, splash_bg, img, grad, font,
                   fs, log, snap, rect>>

Next ==
    \/ ModuleImport
    \/ MainGuard
    \/ create_red_minimalist
    \/ SaveIcon
    \/ SaveAdaptive
    \/ SaveFavicon
    \/ SaveSplash
    \/ ModernBegin
    \/ ModernGradRow
    \/ ModernDraw
    \/ ModernFont
    \/ ModernText
    \/ DarkBegin
    \/ DarkDot
    \/ DarkFinish
    \/ Done

Spec == Init /\ [][Next]_vars

\* ------------------------------------------- the exporter called on its own
ExportImages == {RedImage, DarkImage, NewImage(SIZE, SIZE, BLANK)}

InitExport ==
    /\ pc = "save_icon"
    /\ ret = "again"
    /\ pil = TRUE
    /\ installs = 0
    /\ cause = ""
    /\ base_name \in BaseNames
    /\ splash_bg \in {RED_BG, DARK_BG}
    /\ img \in ExportImages
    /\ grad = <<>>
    /\ font = ""
    /\ fs \in {EmptyFS, StaleFS}
    /\ log = <<>>
    /\ snap = EmptyFS
    /\ rect = NoRect

\* The same call once more, with the same arguments.
SecondCall ==
    /\ pc = "again"
    /\ snap' = fs
    /\ Call_save_variants(img, base_name, splash_bg, "returned")
    /\ UNCHANGED <<pil, installs, cause, grad, font, fs, log, rect>>

NextExport == SaveIcon \/ SaveAdaptive \/ SaveFavicon \/ SaveSplash \/ SecondCall

SpecExport == InitExport /\ [][NextExport]_vars

\* ------------------------------------- _aa_rounded_rect called on its own
InitRect ==
    /\ pc = "rr_call"
    /\ ret = ""
    /\ pil = TRUE
    /\ installs = 0
    /\ cause = ""
    /\ base_name = ""
    /\ splash_bg = <<0, 0, 0>>
    /\ img = NoImage
    /\ grad = <<>>
    /\ font = ""
    /\ fs = EmptyFS
    /\ log = <<>>
    /\ snap = EmptyFS
    /\ rect \in [size : 1..MaxRectSize, radius : 0..MaxRectRadius,
                 fill : {RED_BG \o <<255>>, DARK_BG \o <<255>>}]

Call_aa_rounded_rect ==
    /\ pc = "rr_call"
    /\ img' = AaRoundedRect(rect.size, rect.radius, rect.fill)
    /\ pc' = "rr_ret"
    /\ UNCHANGED <<ret, pil, installs, cause, base_name, splash_bg, grad, font, fs,
                   log, snap, rect>>

NextRect == Call_aa_rounded_rect

SpecRect == InitRect /\ [][NextRect]_vars

\* ---------------------------------------------------------------- pixels
\* Pixel (x, y) lies in the ellipse inscribed in box <<x0, y0, x1, y1>>.
InEllipse(box, x, y) ==
    LET w == box[3] - box[1]
        h == box[4] - box[2]
        dx == 2 * x - box[1] - box[3]
        dy == 2 * y - box[2] - box[4]
    IN  dx * dx * h * h + dy * dy * w * w <= w * w * h * h

\* The pixels an operation may write: an ellipse exactly, a polyline by the
\* box around its points widened by half its width, anything else by its box.
Covers(o, x, y) ==
    CASE o.op = "ellipse" -> InEllipse(o.xy, x, y)
      [] o.op = "line" ->
            LET xs == {o.xy[i] : i \in {1, 3, 5}}
                ys == {o.xy[i] : i \in {2, 4, 6}}
                half == o.arg \div 2 + 1
            IN  /\ \E a \in xs : a - half <= x
                /\ \E a \in xs : x <= a + half
                /\ \E a \in ys : a - half <= y
                /\ \E a \in ys : y <= a + half
      [] o.op = "text" -> FALSE
      [] OTHER -> o.xy[1] <= x /\ x <= o.xy[3] /\ o.xy[2] <= y /\ y <= o.xy[4]

\* Pixel (x, y) of im shows colour c: some operation painted it with c and no
\* later operation painted it with another colour.
Shows(im, c, x, y) ==
    \E i \in 1..Len(im.ops) :
        /\ im.ops[i].fill = Ink(c)
        /\ Covers(im.ops[i], x, y)
        /\ \A j \in (i + 1)..Len(im.ops) :
              im.ops[j].fill = Ink(c) \/ ~Covers(im.ops[j], x, y)

\* ================================================================ claims
LogPaths == {log[i].path : i \in 1..Len(log)}

WrittenBy(b) == {i \in 1..Len(log) : log[i].base = b}

\* C1 as stated: after a run of the whole pipeline with no failed write, the
\* paths written are icon.png, adaptive-icon.png, favicon.png, splash.png and,
\* for <theme> in {modern, dark}, icon-<theme>.png, adaptive-icon-<theme>.png,
\* favicon-<theme>.png and splash-<theme>.png.
C1_PathsAsStated ==
    pc = "done" =>
        LogPaths = {"assets/images/icon.png", "assets/images/adaptive-icon.png",
                    "assets/images/favicon.png", "assets/images/splash.png",
                    "assets/images/icon-modern.png",
                    "assets/images/adaptive-icon-modern.png",
                    "assets/images/favicon-modern.png",
                    "assets/images/splash-modern.png",
                    "assets/images/icon-dark.png",
                    "assets/images/adaptive-icon-dark.png",
                    "assets/images/favicon-dark.png",
                    "assets/images/splash-dark.png"}

\* C1 amended: the favicon and the splash of a backup theme carry the whole
\* base name: favicon-icon-<theme>.png and splash-icon-<theme>.png.
C1_PathsWritten ==
    pc = "done" =>
        LogPaths = {"assets/images/icon.png", "assets/images/adaptive-icon.png",
                    "assets/images/favicon.png", "assets/images/splash.png",
                    "assets/images/icon-modern.png",
                    "assets/images/adaptive-icon-modern.png",
                    "assets/images/favicon-icon-modern.png",
                    "assets/images/splash-icon-modern.png",
                    "assets/images/icon-dark.png",
                    "assets/images/adaptive-icon-dark.png",
                    "assets/images/favicon-icon-dark.png",
                    "assets/images/splash-icon-dark.png"}

C1_Witness ==
    /\ pc = "done"
    /\ "assets/images/favicon-icon-modern.png" \in LogPaths
    /\ "assets/images/splash-icon-dark.png" \in LogPaths

\* C2: no path is ever written twice, and a run that reaches the end has made
\* exactly 12 writes, 4 by each theme.
C2_TwelveDistinctWrites ==
    /\ \A i, j \in 1..Len(log) : i # j => log[i].path # log[j].path
    /\ pc = "done" =>
          /\ Len(log) = 12
          /\ Cardinality(LogPaths) = 12
          /\ \A b \in BaseNames : Cardinality(WrittenBy(b)) = 4

C2_Witness == pc = "done" /\ Len(log) = 12 /\ fs # StaleFS

\* Every file written so far is on disk with the content it was written with.
KeptFiles ==
    \A i \in 1..Len(log) :
        log[i].path \in DOMAIN fs /\ fs[log[i].path] = log[i].content

\* C3: a failed write ends the run there: the terminated process takes no
\* further step (no retry, no later write, no "Done"), the failed write adds
\* nothing to the writes made, and the files written before it are on disk
\* as they were written.
C3_WriteFailureIsFatal ==
    [][/\ pc # "crashed"
       /\ (pc' = "crashed" /\ cause' = "OSError") =>
             /\ log' = log
             /\ KeptFiles
             /\ KeptFiles']_vars

C3_Witness == pc = "crashed" /\ cause = "OSError" /\ Len(log) = 6

\* C4: a process that starts without PIL runs the install once before it can
\* end: it never dies of the missing import with no install attempted.
C4_InstallBeforeFatal ==
    (pc \in {"crashed", "done"} /\ ~pil) => installs = 1

\* The label of the purple theme as it is in the exported icon.
ModernLabelOp == log[5].content.data[Len(log[5].content.data)]

\* C5: a failed font load never ends the run: from the load the run always
\* goes on to draw the label, with the default font when the load failed;
\* after a fallback nothing but a failed write ends the run, and a run that
\* reaches the end has the label drawn with the default font in the exported
\* icon, the four files of the purple theme and the four of the dark theme.
C5_FontFallbackNeverAborts ==
    /\ [][pc = "modern_font" =>
             pc' = "modern_text" /\ font' \in {"arialbd.ttf", "default"}]_vars
    /\ [](pc = "crashed" /\ font = "default" => cause = "OSError")
    /\ [](pc = "done" /\ font = "default" =>
             /\ ModernLabelOp.op = "text"
             /\ ModernLabelOp.aux = "default"
             /\ Cardinality(WrittenBy("icon-modern")) = 4
             /\ Cardinality(WrittenBy("icon-dark")) = 4)

C5_Witness == pc = "done" /\ font = "default" /\ Len(log) = 12

\* C6: every splash file is a 2S x 2S canvas for the icon of edge S exported
\* with it, with the icon pasted at (S/2, S/2): equal margins of S/2 on all
\* four sides, the icon wholly inside the canvas.
C6_SplashCentered ==
    \A i \in 1..Len(log) :
        i % 4 = 0 =>
            LET S == log[i - 3].content.size[1]
                c == log[i].content
                box == c.data[2].xy
            IN  /\ c.size = <<2 * S, 2 * S>>
                /\ c.data[2].op = "paste"
                /\ 2 * box[1] = 2 * S - S
                /\ 2 * box[2] = 2 * S - S
                /\ box[3] - box[1] = S
                /\ box[4] - box[2] = S
                /\ 2 * S - box[3] = box[1]
                /\ 2 * S - box[4] = box[2]
                /\ 0 <= box[1] /\ box[3] <= 2 * S
                /\ 0 <= box[2] /\ box[4] <= 2 * S

C6_Witness == Len(log) = 8 /\ pc = "dark"

\* C7 as stated: each channel of each gradient row y is
\* round(c0 + (c1 - c0) * y / height), within [0, 255].
C7_GradientRounded ==
    \A y \in 0..(Len(grad) - 1) : \A ch \in 1..3 :
        /\ grad[y + 1][ch] =
              PyRound(PURPLE_DARK[ch] * SIZE + (PURPLE_LIGHT[ch] - PURPLE_DARK[ch]) * y, SIZE)
        /\ grad[y + 1][ch] \in 0..255

\* C7 amended: each channel of each gradient row y is c0 + (c1 - c0) * y / height
\* cut to an integer toward zero (its floor, the value being non-negative),
\* within [0, 255].
C7_GradientTruncated ==
    \A y \in 0..(Len(grad) - 1) : \A ch \in 1..3 :
        LET v == grad[y + 1][ch]
            n == PURPLE_DARK[ch] * SIZE + (PURPLE_LIGHT[ch] - PURPLE_DARK[ch]) * y
        IN  /\ v * SIZE <= n
            /\ n < (v + 1) * SIZE
            /\ v \in 0..255

C7_Witness == pc = "modern_grad" /\ Len(grad) = SIZE

\* C8: a second call of the exporter with the same image, base name and
\* background leaves the disk as the first call left it (the same paths with
\* the same content) and the image as it was given.
C8_ExporterIdempotent ==
    pc = "returned" =>
        /\ fs = snap
        /\ DOMAIN fs = DOMAIN snap
        /\ PNG(img) = log[1].content
        /\ \A i \in 1..4 : log[i + 4].path = log[i].path /\ log[i + 4].content = log[i].content

C8_Witness == pc = "returned" /\ Len(log) = 8

\* C9: a call of _aa_rounded_rect with radius >= S/2 that returns has
\* rasterised with a radius below half of the edge it rasterised.
C9_RadiusClamped ==
    (pc = "rr_ret" /\ 2 * rect.radius >= rect.size) =>
        LET drawn == img.ops[1].sub[2]
        IN  drawn.op = "rounded_rectangle" /\ 2 * drawn.arg < drawn.xy[3] - drawn.xy[1]

\* The pixels around the two accent dots.
DotWindowX == (SIZE \div 2 - dot_r - 1)..(SIZE \div 2 + 2 * dot_r + 1)

DotWindowY == (dot_cy - dot_r - 1)..(dot_cy + dot_r + 1)

\* C10: in the finished dark image the accent pixels are exactly those of the
\* circle of radius dot_r around (cx, dot_cy).
C10_OnlyCenteredDot ==
    (base_name = "icon-dark" /\ pc = "save_icon") =>
        \A x \in DotWindowX : \A y \in DotWindowY :
            Shows(img, ACCENT, x, y) <=>
                InEllipse(<<SIZE \div 2 - dot_r, dot_cy - dot_r,
                            SIZE \div 2 + dot_r, dot_cy + dot_r>>, x, y)

====
